---- MODULE Spec2Model ----
(***************************************************************************)
(* Model of the file-reader library: the Tokenizer functor, the two        *)
(* CSVFileReader constructors (heterogeneous tuple records and the         *)
(* homogeneous specialisation) with their accessors, and the               *)
(* PropertiesFileReader constructor with keys() and values().              *)
(*                                                                         *)
(* Characters are one-character strings, std::string values are sequences  *)
(* of characters.  A file is what the std::ifstream delivers: each         *)
(* getline yields one line, and hits end-of-file or not.                   *)
(***************************************************************************)
EXTENDS Integers, Sequences, FiniteSets, TLC

\* ------------------------------------------------------------------ bounds

\* Longest string handed to the Tokenizer in SpecTok.
MaxStrLen == 4

\* Size in characters (newlines included) of the largest CSV file read.
MaxFileLen == 4

\* Largest column count passed to the homogeneous CSV constructor.
MaxCols == 3

\* Largest row number passed to operator[].
MaxRow == 2

\* Size in characters (newlines included) of the largest properties file.
MaxPropFileLen == 7

\* ------------------------------------------------------- string helpers

\* std::string::npos
npos == -1

\* All std::string values over alphabet S of length at most n.
StringsUpTo(S, n) == UNION {[1..k -> S] : k \in 0..n}

\* str.substr(pos, n), pos a 0-based offset with pos <= str.size().
Substr(str, pos, n) == SubSeq(str, pos + 1, pos + n)

\* str.find(c, from): 0-based offset of the first c at or after from, or npos.
Find(str, c, from) ==
  LET hits == {i \in from..(Len(str) - 1) : str[i + 1] = c}
  IN IF hits = {} THEN npos ELSE CHOOSE i \in hits : \A j \in hits : i <= j

\* ------------------------------------------------------------- Tokenizer

\* The while loop of Tokenizer::operator(), entered with init_pos.
RECURSIVE TokenizerLoop(_, _, _, _)
TokenizerLoop(tokens, str, sep, init_pos) ==
  LET pos == Find(str, sep, init_pos)
  IN IF pos # npos
       THEN TokenizerLoop(Append(tokens, Substr(str, init_pos, pos - init_pos)),
                          str, sep, pos + 1)
       ELSE Append(tokens, Substr(str, init_pos, Len(str) - init_pos))

\* Bug variant: the output vector is not cleared before the tokens are added.
TokenizerNoClear(tokens, str, sep) == TokenizerLoop(tokens, str, sep, 0)

\* Tokenizer::operator()(tokens, str, sep): the new content of tokens.
Tokenizer(tokens, str, sep) == TokenizerLoop(<<>>, str, sep, 0)

\* ------------------------------------------------------------ alphabets

\* Characters of the strings tokenized in SpecTok, separators included.
TokAlphabet == {"a", "b", ";"}

\* Characters of a CSV file's lines (the newline is the line terminator).
CsvAlphabet == {"1", "x", ";", "#", "!", "-", " "}

\* Characters of a properties file's lines.
PropAlphabet == {"a", "b", "=", " ", "#"}

\* Separator characters passed to the PropertiesFileReader constructor.
PropSeparators == {"="}

\* Separator characters passed to the CSV constructors.
CsvSeparators == {";"}

\* The template argument lists TYPES... the heterogeneous reader is
\* instantiated with: "text" is std::string, "int" is int (converted by
\* atoi), "long" is long (atol), "float" is double (atof).
HeteroTypes == {<<"int", "text">>, <<"text", "float", "long">>}

\* ------------------------------------------------- atoi / atol / atof

\* isspace() in the "C" locale (vertical tab and form feed, which have no
\* string escape here, are in no alphabet of the model).
IsSpace(c) == c \in {" ", "\t", "\n", "\r"}

IsDigit(c) == c \in {"0", "1", "2", "3", "4", "5", "6", "7", "8", "9"}

DigitVal(c) ==
  CASE c = "0" -> 0 [] c = "1" -> 1 [] c = "2" -> 2 [] c = "3" -> 3
    [] c = "4" -> 4 [] c = "5" -> 5 [] c = "6" -> 6 [] c = "7" -> 7
    [] c = "8" -> 8 [] c = "9" -> 9

\* First 1-based position at or after i that holds no white space.
RECURSIVE SkipSpaces(_, _)
SkipSpaces(str, i) ==
  IF i <= Len(str) /\ IsSpace(str[i]) THEN SkipSpaces(str, i + 1) ELSE i

\* Digits from position i on, accumulated most significant first:
\* <<value, number of digits consumed>>.
RECURSIVE ScanDigits(_, _, _, _)
ScanDigits(str, i, acc, n) ==
  IF i <= Len(str) /\ IsDigit(str[i])
    THEN ScanDigits(str, i + 1, acc * 10 + DigitVal(str[i]), n + 1)
    ELSE <<acc, n>>

\* strtol(str, NULL, 10) as atoi and atol use it: white space is skipped, an
\* optional sign is read, then decimal digits up to the first other
\* character; no digits gives 0.  (A value outside the type's range needs
\* more digits than a file of MaxFileLen characters holds.)
StrToL(str) ==
  LET i   == SkipSpaces(str, 1)
      sgn == i <= Len(str) /\ str[i] \in {"+", "-"}
      neg == sgn /\ str[i] = "-"
      v   == ScanDigits(str, IF sgn THEN i + 1 ELSE i, 0, 0)[1]
  IN IF neg THEN 0 - v ELSE v

\* Bug variant: a token that is not a number throughout is rejected as 0.
AtoiStrict(str) ==
  IF \A i \in 1..Len(str) : IsDigit(str[i]) THEN StrToL(str) ELSE 0

Atoi(str) == StrToL(str)

Atol(str) == StrToL(str)

\* atof: white space, sign, decimal digits and an optional fraction; the
\* value is m * 10^e.  (Exponents, hexadecimal floats, "inf" and "nan" need
\* characters outside CsvAlphabet.)
Atof(str) ==
  LET i    == SkipSpaces(str, 1)
      sgn  == i <= Len(str) /\ str[i] \in {"+", "-"}
      neg  == sgn /\ str[i] = "-"
      j    == IF sgn THEN i + 1 ELSE i
      ip   == ScanDigits(str, j, 0, 0)
      k    == j + ip[2]
      dot  == k <= Len(str) /\ str[k] = "."
      fp   == IF dot THEN ScanDigits(str, k + 1, ip[1], 0) ELSE <<ip[1], 0>>
      some == ip[2] + fp[2] > 0
      m    == IF some THEN fp[1] ELSE 0
  IN [m |-> IF neg THEN 0 - m ELSE m, e |-> IF some THEN 0 - fp[2] ELSE 0]

\* ------------------------------------------------- CSVFileReader<TYPES...>

\* The conversion _copyToTuple applies to column type t.
ConvertField(t, s) ==
  CASE t = "text"  -> s
    [] t = "float" -> Atof(s)
    [] t = "long"  -> Atol(s)
    [] t = "int"   -> Atoi(s)

\* _copyToTuple<POS>: fills tuple from position POS (0-based) to the end.
RECURSIVE copyToTuple(_, _, _, _)
copyToTuple(TYPES, tuple, strValues, POS) ==
  LET t == [tuple EXCEPT ![POS + 1] = ConvertField(TYPES[POS + 1], strValues[POS + 1])]
  IN IF POS + 1 < Len(TYPES) THEN copyToTuple(TYPES, t, strValues, POS + 1) ELSE t

\* std::tuple<TYPES...> rec; (value-initialised members are not read)
EmptyTuple(TYPES) == [i \in 1..Len(TYPES) |-> <<>>]

\* if (line.length() == 0 || line[0] == '#' || line[0] == '!') continue;
IsSkipped(line) == Len(line) = 0 \/ line[1] = "#" \/ line[1] = "!"

NoError == [kind |-> "none", line |-> 0, actual |-> 0, expected |-> 0]

\* The std::range_error of a row with the wrong number of values.
RangeError(line, actual, expected) ==
  [kind |-> "range_error", line |-> line, actual |-> actual, expected |-> expected]

\* Bug variant: the records read so far are kept when the error is thrown.
HeteroBodyNoClear(TYPES, separator, records, strValues, line) ==
  IF IsSkipped(line)
    THEN [records |-> records, strValues |-> strValues, err |-> NoError]
    ELSE LET toks == Tokenizer(strValues, line, separator)
         IN IF Len(toks) # Len(TYPES)
              THEN [records |-> records, strValues |-> toks,
                    err |-> RangeError(Len(records) + 1, Len(toks), Len(TYPES))]
              ELSE [records |-> Append(records, copyToTuple(TYPES, EmptyTuple(TYPES), toks, 0)),
                    strValues |-> toks, err |-> NoError]

\* One iteration of the constructor's while loop after getline delivered
\* line: the new _records and strValues, and the error thrown, if any.
HeteroBody(TYPES, separator, records, strValues, line) ==
  IF IsSkipped(line)
    THEN [records |-> records, strValues |-> strValues, err |-> NoError]
    ELSE LET toks == Tokenizer(strValues, line, separator)
         IN IF Len(toks) # Len(TYPES)
              THEN [records |-> <<>>, strValues |-> toks,
                    err |-> RangeError(Len(records) + 1, Len(toks), Len(TYPES))]
              ELSE [records |-> Append(records, copyToTuple(TYPES, EmptyTuple(TYPES), toks, 0)),
                    strValues |-> toks, err |-> NoError]

\* ---------------------------------------------------- CSVFileReader<TYPE>

\* Bug variant: the column count is never taken from the first record.
HomogBodyNoInfer(separator, records, values, numValues, line) ==
  IF IsSkipped(line)
    THEN [records |-> records, values |-> values, numValues |-> numValues, err |-> NoError]
    ELSE LET toks == Tokenizer(values, line, separator)
         IN IF Len(toks) # numValues
              THEN [records |-> <<>>, values |-> toks, numValues |-> numValues,
                    err |-> RangeError(Len(records) + 1, Len(toks), numValues)]
              ELSE [records |-> Append(records, toks), values |-> toks,
                    numValues |-> numValues, err |-> NoError]

\* One iteration of the specialised constructor's while loop.
HomogBody(separator, records, values, numValues, line) ==
  IF IsSkipped(line)
    THEN [records |-> records, values |-> values, numValues |-> numValues, err |-> NoError]
    ELSE LET toks == Tokenizer(values, line, separator)
             nv   == IF Len(records) = 0 /\ numValues = 0 THEN Len(toks) ELSE numValues
         IN IF Len(toks) # nv
              THEN [records |-> <<>>, values |-> toks, numValues |-> nv,
                    err |-> RangeError(Len(records) + 1, Len(toks), nv)]
              ELSE [records |-> Append(records, toks), values |-> toks,
                    numValues |-> nv, err |-> NoError]

\* The specialised constructor's loop over the lines of a file that is
\* open, entered with st = [records, values, numValues, err]: its state when
\* the constructor returns or throws.
RECURSIVE HomogLoop(_, _, _)
HomogLoop(separator, st, lines) ==
  IF lines = <<>> \/ st.err # NoError THEN st
  ELSE HomogLoop(separator,
                 HomogBody(separator, st.records, st.values, st.numValues, lines[1]),
                 Tail(lines))

\* CSVFileReader<TYPE>(fileName, separator, cols) on a file of these lines.
ConstructHomog(lines, separator, cols) ==
  HomogLoop(separator,
            [records |-> <<>>, values |-> << <<>> >>, numValues |-> cols, err |-> NoError],
            lines)

\* --------------------------------------------------- PropertiesFileReader

\* The terminating character line[line.length()] refers to.
Nul == "NUL"

\* line[i] for a 0-based i <= line.length().
CharAt(str, i) == IF i < Len(str) THEN str[i + 1] ELSE Nul

\* Character codes (ASCII), the order std::less<std::string> compares by.
CharCode(c) ==
  CASE c = " " -> 32 [] c = "!" -> 33 [] c = "#" -> 35 [] c = "=" -> 61
    [] c = "a" -> 97 [] c = "b" -> 98

\* a < b for std::string: lexicographic by character code.
RECURSIVE StrLess(_, _)
StrLess(a, b) ==
  IF Len(b) = 0 THEN FALSE
  ELSE IF Len(a) = 0 THEN TRUE
  ELSE IF a[1] # b[1] THEN CharCode(a[1]) < CharCode(b[1])
  ELSE StrLess(Tail(a), Tail(b))

\* The key loop: while (line[i] != separator && i < line.length()), which
\* appends every character that is not white space: <<key, i>> at its exit.
RECURSIVE KeyLoop(_, _, _, _)
KeyLoop(line, separator, i, key) ==
  IF CharAt(line, i) # separator /\ i < Len(line)
    THEN KeyLoop(line, separator, i + 1,
                 IF ~IsSpace(CharAt(line, i)) THEN Append(key, CharAt(line, i)) ELSE key)
    ELSE <<key, i>>

\* if (key.length() == 0 || key[0] == '#' || key[0] == '!' ||
\*     key.length() == line.length()) continue;
NotAProperty(key, line) ==
  Len(key) = 0 \/ key[1] = "#" \/ key[1] = "!" \/ Len(key) = Len(line)

\* while (line[++i] < 0 || isspace(line[i])); entered with i: the i it
\* stops at, or npos when ++i passes line.length() and the line is read
\* outside its characters.
RECURSIVE TrimLeading(_, _)
TrimLeading(line, i) ==
  IF i + 1 > Len(line) THEN npos
  ELSE IF IsSpace(CharAt(line, i + 1)) THEN TrimLeading(line, i + 1)
  ELSE i + 1

\* Bug variant: the trailing white space of the value is not removed.
TrimTrailingNone(value, i) == i - 1

\* i = value.length(); while (value[--i] < 0 || isspace(value[i])); for a
\* value that is not empty: the i it stops at (the value's first character,
\* which is no white space, stops it at 0 at the latest).
RECURSIVE TrimTrailing(_, _)
TrimTrailing(value, i) ==
  IF IsSpace(CharAt(value, i - 1)) THEN TrimTrailing(value, i - 1) ELSE i - 1

\* What one iteration of the constructor's while loop does with line: the
\* set of its possible outcomes.  "skip" is the continue, "insert" the
\* _properties.insert of key and value, "throw" the std::runtime_error the
\* catch block rethrows; oob tells that a string was read outside its
\* characters on the way (undefined behaviour).
\*  - No separator on a line holding white space: key is shorter than the
\*    line, so it is not skipped; ++i passes line.length(), line[i] is read
\*    out of bounds and line.substr(i) throws std::out_of_range.
\*  - Nothing but white space after the separator: value is empty, --i wraps
\*    around and value[i] is read out of bounds; when that byte is no white
\*    space value.erase(0) leaves the empty value, which is inserted, and
\*    otherwise value.erase(++i) throws std::out_of_range.
PropsBody(line, separator) ==
  LET ks  == KeyLoop(line, separator, 0, <<>>)
      key == ks[1]
      i   == TrimLeading(line, ks[2])
      v0  == Substr(line, i, Len(line) - i)
      j   == TrimTrailing(v0, Len(v0))
  IN IF NotAProperty(key, line)
       THEN {[kind |-> "skip", key |-> key, value |-> <<>>, oob |-> FALSE]}
     ELSE IF i = npos
       THEN {[kind |-> "throw", key |-> key, value |-> <<>>, oob |-> TRUE]}
     ELSE IF Len(v0) = 0
       THEN {[kind |-> "insert", key |-> key, value |-> <<>>, oob |-> TRUE],
             [kind |-> "throw", key |-> key, value |-> <<>>, oob |-> TRUE]}
     ELSE {[kind |-> "insert", key |-> key, value |-> Substr(v0, 0, j + 1), oob |-> FALSE]}

\* Bug variant: an equal key is inserted before the pairs that hold it.
MultimapInsertFirst(properties, kv) ==
  LET n == Cardinality({i \in 1..Len(properties) : StrLess(properties[i][1], kv[1])})
  IN SubSeq(properties, 1, n) \o <<kv>> \o SubSeq(properties, n + 1, Len(properties))

\* Bug variant: the pairs are kept in the order of insertion.
MultimapInsertBack(properties, kv) == Append(properties, kv)

\* std::multimap::insert: the pairs are ordered by key, and a pair is
\* inserted after the pairs whose key is equal to its own.
MultimapInsert(properties, kv) ==
  LET n == Cardinality({i \in 1..Len(properties) : ~StrLess(kv[1], properties[i][1])})
  IN SubSeq(properties, 1, n) \o <<kv>> \o SubSeq(properties, n + 1, Len(properties))

\* The loop of keys() from pair i on, res holding the keys pushed so far.
RECURSIVE KeysLoop(_, _, _)
KeysLoop(properties, i, res) ==
  IF i > Len(properties) THEN res
  ELSE KeysLoop(properties, i + 1,
                IF Len(res) = 0 \/ res[Len(res)] # properties[i][1]
                  THEN Append(res, properties[i][1]) ELSE res)

\* PropertiesFileReader::keys()
keys(properties) == KeysLoop(properties, 1, <<>>)

\* _properties.equal_range(key): <<first, last>>, 1-based positions, the
\* range being [first, last).
EqualRange(properties, key) ==
  LET lo == Cardinality({i \in 1..Len(properties) : StrLess(properties[i][1], key)})
      hi == Cardinality({i \in 1..Len(properties) : ~StrLess(key, properties[i][1])})
  IN <<lo + 1, hi + 1>>

\* PropertiesFileReader::values<std::string>(key)
values(properties, key) ==
  LET r == EqualRange(properties, key)
  IN [n \in 1..(r[2] - r[1]) |-> properties[r[1] + n - 1][2]]

\* ------------------------------------------------------------------ state

VARIABLES
  tokens,      \* Tokenizer: the output vector
  tokStr,      \* Tokenizer: the string last tokenized
  tokSep,      \* Tokenizer: the separator last used
  tokPc,       \* "idle" before the first call, "done" after a call
  kind,        \* CSV: "hetero" (CSVFileReader<TYPES...>) or "homog" (CSVFileReader<TYPE>)
  TYPES,       \* CSV: the template arguments of the heterogeneous reader
  separator,   \* CSV: constructor argument
  colsArg,     \* CSV: the cols argument the homogeneous constructor was called with
  numValues,   \* CSV: the homogeneous constructor's parameter, which it updates
  records,     \* CSV: _records
  strValues,   \* CSV: the constructor's token vector (strValues / values)
  line,        \* CSV: the constructor's line
  file,        \* CSV: the lines getline has delivered so far
  pc,          \* CSV: "new", "reading", "done" (constructed) or "failed" (threw)
  err,         \* CSV: the exception thrown
  ret,         \* CSV: what the last accessor call returned
  properties,  \* Properties: _properties, in iteration order
  pSeparator,  \* Properties: constructor argument
  pLine,       \* Properties: the constructor's line
  pUsed,       \* Properties: characters of the file consumed so far
  pLast,       \* Properties: what the last loop iteration did
  pOob,        \* Properties: whether a string was read outside its characters
  inserted,    \* Properties: the pairs inserted, in the order of insertion
  pPc,         \* Properties: "new", "reading", "done" or "failed"
  pRet         \* Properties: what the last accessor call returned

tokVars == <<tokens, tokStr, tokSep, tokPc>>

csvVars == <<kind, TYPES, separator, colsArg, numValues, records, strValues,
             line, file, pc, err, ret>>

propVars == <<properties, pSeparator, pLine, pUsed, pLast, pOob, inserted, pPc, pRet>>

vars == <<tokVars, csvVars, propVars>>

NoRet == [op |-> "none", arg |-> 0, kind |-> "none", v |-> 0]

TokIdle ==
  /\ tokens = <<>> /\ tokStr = <<>> /\ tokSep = ";" /\ tokPc = "idle"

CsvIdle ==
  /\ kind = "none" /\ TYPES = <<>> /\ separator = ";" /\ colsArg = 0
  /\ numValues = 0 /\ records = <<>> /\ strValues = <<>> /\ line = <<>>
  /\ file = <<>> /\ pc = "new" /\ err = NoError /\ ret = NoRet

PropIdle ==
  /\ properties = <<>> /\ pSeparator = "=" /\ pLine = <<>> /\ pUsed = 0
  /\ pLast = "none" /\ pOob = FALSE /\ inserted = <<>> /\ pPc = "new"
  /\ pRet = NoRet

\* -------------------------------------------------------- Tokenizer calls

\* The output vectors a caller hands in: empty, or holding earlier tokens.
TokPrevious == {<<>>, << <<"a">>, <<>> >>}

Tokenize ==
  \E s \in StringsUpTo(TokAlphabet, MaxStrLen), c \in TokAlphabet :
    /\ tokens' = Tokenizer(tokens, s, c)
    /\ tokStr' = s
    /\ tokSep' = c
    /\ tokPc' = "done"
    /\ UNCHANGED <<csvVars, propVars>>

\* ------------------------------------------------------------ CSV readers

\* Size of a file made of the lines read so far, the last one ending at
\* end-of-file (atEof) or at a newline.
RECURSIVE SumLen(_)
SumLen(lines) == IF lines = <<>> THEN 0 ELSE Len(lines[1]) + SumLen(Tail(lines))

FileLen(lines, atEof) == SumLen(lines) + Len(lines) - (IF atEof THEN 1 ELSE 0)

\* The lines getline can deliver next from a file of at most MaxFileLen
\* characters, lines being the ones delivered so far.
CsvLines(lines) == StringsUpTo(CsvAlphabet, MaxFileLen - FileLen(lines, FALSE))

\* CSVFileReader<TYPES...>::CSVFileReader up to the loop: the file is open.
OpenHetero ==
  \E T \in HeteroTypes, s \in CsvSeparators :
    /\ pc = "new"
    /\ kind' = "hetero" /\ TYPES' = T /\ separator' = s
    /\ records' = <<>>
    /\ strValues' = [i \in 1..Len(T) |-> <<>>]
    /\ line' = <<>> /\ file' = <<>>
    /\ pc' = "reading"
    /\ UNCHANGED <<colsArg, numValues, err, ret, tokVars, propVars>>

\* CSVFileReader<TYPE>::CSVFileReader up to the loop; values(numValues || 1)
\* is a vector of one empty string.
OpenHomog ==
  \E c \in 0..MaxCols, s \in CsvSeparators :
    /\ pc = "new"
    /\ kind' = "homog" /\ separator' = s
    /\ colsArg' = c /\ numValues' = c
    /\ records' = <<>>
    /\ strValues' = << <<>> >>
    /\ line' = <<>> /\ file' = <<>>
    /\ pc' = "reading"
    /\ UNCHANGED <<TYPES, err, ret, tokVars, propVars>>

\* Either constructor when the file cannot be opened.
OpenFails ==
  \E k \in {"hetero", "homog"} :
    /\ pc = "new"
    /\ kind' = k
    /\ pc' = "failed"
    /\ err' = [kind |-> "runtime_error", line |-> 0, actual |-> 0, expected |-> 0]
    /\ UNCHANGED <<TYPES, separator, colsArg, numValues, records, strValues,
                   line, file, ret, tokVars, propVars>>

\* One iteration of while (!file.eof()) in CSVFileReader<TYPES...>: getline
\* delivers l and reaches end-of-file or not (last); on end-of-file the loop
\* ends and the constructor returns.
ReadHetero ==
  \E l \in CsvLines(file), last \in BOOLEAN :
    /\ pc = "reading" /\ kind = "hetero"
    /\ FileLen(Append(file, l), last) <= MaxFileLen
    /\ LET b == HeteroBody(TYPES, separator, records, strValues, l)
       IN /\ records' = b.records
          /\ strValues' = b.strValues
          /\ err' = b.err
          /\ pc' = IF b.err # NoError THEN "failed"
                   ELSE IF last THEN "done" ELSE "reading"
    /\ line' = l
    /\ file' = Append(file, l)
    /\ UNCHANGED <<kind, TYPES, separator, colsArg, numValues, ret, tokVars, propVars>>

\* One iteration of while (!file.eof()) in CSVFileReader<TYPE>.
ReadHomog ==
  \E l \in CsvLines(file), last \in BOOLEAN :
    /\ pc = "reading" /\ kind = "homog"
    /\ FileLen(Append(file, l), last) <= MaxFileLen
    /\ LET b == HomogBody(separator, records, strValues, numValues, l)
       IN /\ records' = b.records
          /\ strValues' = b.values
          /\ numValues' = b.numValues
          /\ err' = b.err
          /\ pc' = IF b.err # NoError THEN "failed"
                   ELSE IF last THEN "done" ELSE "reading"
    /\ line' = l
    /\ file' = Append(file, l)
    /\ UNCHANGED <<kind, TYPES, separator, colsArg, ret, tokVars, propVars>>

\* size() of either reader.
Size ==
  /\ pc = "done"
  /\ ret' = [op |-> "size", arg |-> 0, kind |-> "value", v |-> Len(records)]
  /\ UNCHANGED <<kind, TYPES, separator, colsArg, numValues, records, strValues,
                 line, file, pc, err, tokVars, propVars>>

\* What cols() can do.  CSVFileReader<TYPES...>::cols() is sizeof...(TYPES).
\* CSVFileReader<TYPE>::cols() is _records[0].size(): with no record it reads
\* the element of an empty vector, which is undefined: it crashes or returns
\* whatever is found there.
ColsOutcomes(k, T, recs) ==
  IF k = "hetero" THEN {[kind |-> "value", v |-> Len(T)]}
  ELSE IF Len(recs) > 0 THEN {[kind |-> "value", v |-> Len(recs[1])]}
  ELSE {[kind |-> "crash", v |-> 0]} \cup {[kind |-> "garbage", v |-> g] : g \in 0..MaxCols}

Cols ==
  \E o \in ColsOutcomes(kind, TYPES, records) :
    /\ pc = "done"
    /\ ret' = [op |-> "cols", arg |-> 0, kind |-> o.kind, v |-> o.v]
    /\ UNCHANGED <<kind, TYPES, separator, colsArg, numValues, records, strValues,
                   line, file, pc, err, tokVars, propVars>>

\* What operator[](row) can do: _records[row] is std::vector::operator[],
\* which checks nothing; for row >= size() the read is outside the vector,
\* which is undefined: it crashes or returns whatever is found there.
IndexOutcomes(recs, row) ==
  IF row < Len(recs) THEN {[kind |-> "value", v |-> recs[row + 1]]}
  ELSE {[kind |-> "crash", v |-> <<>>], [kind |-> "garbage", v |-> <<>>]}

Index ==
  \E row \in 0..MaxRow : \E o \in IndexOutcomes(records, row) :
    /\ pc = "done"
    /\ ret' = [op |-> "index", arg |-> row, kind |-> o.kind, v |-> o.v]
    /\ UNCHANGED <<kind, TYPES, separator, colsArg, numValues, records, strValues,
                   line, file, pc, err, tokVars, propVars>>

\* ------------------------------------------------------ properties reader

\* The lines getline can deliver next from a file of at most MaxPropFileLen
\* characters, used of which are consumed.
PropLines(used) == StringsUpTo(PropAlphabet, MaxPropFileLen - used)

\* The keys values() is asked for.
PropQueryKeys == {<<"a">>, <<"b">>, <<"a", "b">>}

\* PropertiesFileReader::PropertiesFileReader up to the loop.
OpenProps ==
  \E s \in PropSeparators :
    /\ pPc = "new"
    /\ pSeparator' = s
    /\ pPc' = "reading"
    /\ UNCHANGED <<properties, pLine, pUsed, pLast, pOob, inserted, pRet, tokVars, csvVars>>

\* The constructor when the file cannot be opened.
OpenPropsFails ==
  /\ pPc = "new"
  /\ pPc' = "failed"
  /\ pLast' = "open_failed"
  /\ UNCHANGED <<properties, pSeparator, pLine, pUsed, pOob, inserted, pRet, tokVars, csvVars>>

\* One iteration of while (!propFile.eof()): getline delivers l and reaches
\* end-of-file or not (last).
ReadProps ==
  \E l \in PropLines(pUsed), last \in BOOLEAN :
    /\ pPc = "reading"
    /\ pUsed + Len(l) + (IF last THEN 0 ELSE 1) <= MaxPropFileLen
    /\ \E o \in PropsBody(l, pSeparator) :
         /\ pLast' = o.kind
         /\ pOob' = (pOob \/ o.oob)
         /\ properties' = IF o.kind = "insert"
                            THEN MultimapInsert(properties, <<o.key, o.value>>)
                            ELSE properties
         /\ inserted' = IF o.kind = "insert"
                          THEN Append(inserted, <<o.key, o.value>>)
                          ELSE inserted
         /\ pPc' = IF o.kind = "throw" THEN "failed"
                   ELSE IF last THEN "done" ELSE "reading"
    /\ pLine' = l
    /\ pUsed' = pUsed + Len(l) + (IF last THEN 0 ELSE 1)
    /\ UNCHANGED <<pSeparator, pRet, tokVars, csvVars>>

Keys ==
  /\ pPc = "done"
  /\ pRet' = [op |-> "keys", arg |-> <<>>, kind |-> "value", v |-> keys(properties)]
  /\ UNCHANGED <<properties, pSeparator, pLine, pUsed, pLast, pOob, inserted, pPc,
                 tokVars, csvVars>>

Values ==
  \E k \in PropQueryKeys :
    /\ pPc = "done"
    /\ pRet' = [op |-> "values", arg |-> k, kind |-> "value", v |-> values(properties, k)]
    /\ UNCHANGED <<properties, pSeparator, pLine, pUsed, pLast, pOob, inserted, pPc,
                   tokVars, csvVars>>

\* --------------------------------------------------------- specifications

\* The CSV readers.
Init == TokIdle /\ CsvIdle /\ PropIdle

Next == OpenHetero \/ OpenHomog \/ OpenFails \/ ReadHetero \/ ReadHomog
          \/ Size \/ Cols \/ Index

Spec == Init /\ [][Next]_vars

\* The Tokenizer alone.
InitTok ==
  /\ tokens \in TokPrevious /\ tokStr = <<>> /\ tokSep = ";" /\ tokPc = "idle"
  /\ CsvIdle /\ PropIdle

NextTok == Tokenize

SpecTok == InitTok /\ [][NextTok]_vars

\* The properties reader.
InitProps == TokIdle /\ CsvIdle /\ PropIdle

NextProps == OpenProps \/ OpenPropsFails \/ ReadProps \/ Keys \/ Values

SpecProps == InitProps /\ [][NextProps]_vars

\* ----------------------------------------------- what the claims speak of

\* Number of occurrences of character c in str.
Occurrences(str, c) == Cardinality({i \in 1..Len(str) : str[i] = c})

\* The separator-delimited fields of a line: field k lies between the
\* (k-1)-th and the k-th occurrence of the separator.
Fields(l, sep) ==
  LET P      == {i \in 1..Len(l) : l[i] = sep}
      n      == Cardinality(P) + 1
      at(k)  == CHOOSE p \in P : Cardinality({q \in P : q <= p}) = k
      lo(k)  == IF k = 1 THEN 1 ELSE at(k - 1) + 1
      hi(k)  == IF k = n THEN Len(l) ELSE at(k) - 1
  IN [k \in 1..n |-> SubSeq(l, lo(k), hi(k))]

FieldCount(l, sep) == Occurrences(l, sep) + 1

\* The tokens joined by the separator.
RECURSIVE JoinTokens(_, _)
JoinTokens(toks, sep) ==
  IF Len(toks) = 0 THEN <<>>
  ELSE IF Len(toks) = 1 THEN toks[1]
  ELSE toks[1] \o <<sep>> \o JoinTokens(Tail(toks), sep)

\* A data line: not empty and not starting with '#' or '!'.
IsDataLine(l) == Len(l) > 0 /\ l[1] \notin {"#", "!"}

DataLines(lines) == SelectSeq(lines, IsDataLine)

\* The construction got past opening the file.
CsvOpened == pc \in {"reading", "done", "failed"} /\ err.kind # "runtime_error"

\* The column count the records are held to: N of the heterogeneous reader,
\* the cols argument of the homogeneous one, or with cols = 0 the field count
\* of the first data line (0 while there is none).
Established ==
  IF kind = "hetero" THEN Len(TYPES)
  ELSE IF colsArg > 0 THEN colsArg
  ELSE IF DataLines(file) # <<>> THEN FieldCount(DataLines(file)[1], separator)
  ELSE 0

\* The value of the leading numeric prefix of a token: white space, then an
\* optional sign, then the longest run of decimal digits; 0 without digits.
PrefixValue(tok) ==
  LET w    == CHOOSE n \in 0..Len(tok) :
                /\ \A i \in 1..n : tok[i] = " "
                /\ (n < Len(tok) => tok[n + 1] # " ")
      sgn  == IF w < Len(tok) /\ tok[w + 1] \in {"+", "-"} THEN 1 ELSE 0
      from == w + sgn
      d    == CHOOSE n \in 0..(Len(tok) - from) :
                /\ \A i \in 1..n : IsDigit(tok[from + i])
                /\ (from + n < Len(tok) => ~IsDigit(tok[from + n + 1]))
      pow[k \in 0..Len(tok)] == IF k = 0 THEN 1 ELSE 10 * pow[k - 1]
      sum[k \in 0..d] ==
        IF k = 0 THEN 0 ELSE sum[k - 1] + DigitVal(tok[from + k]) * pow[d - k]
  IN IF sgn = 1 /\ tok[w + 1] = "-" THEN 0 - sum[d] ELSE sum[d]

\* The record of a data line in the heterogeneous store, column by column.
ExpectedTuple(T, toks) ==
  [i \in 1..Len(T) |->
     IF T[i] = "text" THEN toks[i]
     ELSE IF T[i] = "float" THEN [m |-> PrefixValue(toks[i]), e |-> 0]
     ELSE PrefixValue(toks[i])]

\* The record of a data line in the store under construction.
ExpectedRecord(l) ==
  IF kind = "hetero" THEN ExpectedTuple(TYPES, Fields(l, separator))
  ELSE Fields(l, separator)

\* ------------------------------------------------------------------ claims

\* C1: for every file whose data lines all have exactly N fields, the
\* construction of a store of arity N succeeds, size() is the number of data
\* lines and cols() is N (N being the declared types' count, or the column
\* count given, or the one inferred from the first data line).
C1_WellFormedSizeCols ==
  (/\ CsvOpened /\ pc # "reading"
   /\ \A i \in 1..Len(file) :
        IsDataLine(file[i]) => FieldCount(file[i], separator) = Established)
  => /\ pc = "done"
     /\ Len(records) = Len(DataLines(file))
     /\ (ret.op = "size" => ret.v = Len(DataLines(file)))
     /\ (ret.op = "cols" =>
           /\ ret.kind = "value"
           /\ (Established > 0 => ret.v = Established))

\* C2: whenever a data line's field count differs from the established
\* column count, the construction has failed with the row-count-mismatch
\* error and the store holds no record.
C2_AllOrNothing ==
  (/\ CsvOpened
   /\ \E i \in 1..Len(file) :
        IsDataLine(file[i]) /\ FieldCount(file[i], separator) # Established)
  => /\ pc = "failed"
     /\ err.kind = "range_error"
     /\ records = <<>>

\* C2 witness: the failing line follows a data line that had been accepted.
C2_Witness ==
  /\ pc = "failed" /\ err.kind = "range_error"
  /\ Len(DataLines(file)) >= 2
  /\ records = <<>>

\* C3: the row-count-mismatch error carries the 1-based number of the
\* offending line among all lines of the file, that line's token count and
\* the expected column count.
C3_ErrorLineNumber ==
  (pc = "failed" /\ err.kind = "range_error")
  => /\ err.line = Len(file)
     /\ err.actual = FieldCount(file[Len(file)], separator)
     /\ err.expected = Established

\* C4: operator[](row) returns the record of the row-th data line when
\* row < size(), and fails with an out-of-range error when row >= size().
C4_IndexedLookup ==
  ret.op = "index"
  => IF ret.arg < Len(DataLines(file))
       THEN ret.kind = "value" /\ ret.v = ExpectedRecord(DataLines(file)[ret.arg + 1])
       ELSE ret.kind = "out_of_range"

\* C5: the Tokenizer leaves in the output vector exactly (occurrences of the
\* separator) + 1 tokens, none containing the separator, which joined by the
\* separator give the string back; "a;;b" gives "a", "", "b" and "a;b;"
\* gives "a", "b", "".
C5_TokenizerSplits ==
  tokPc = "done"
  => /\ Len(tokens) = Occurrences(tokStr, tokSep) + 1
     /\ \A i \in 1..Len(tokens) : Occurrences(tokens[i], tokSep) = 0
     /\ JoinTokens(tokens, tokSep) = tokStr
     /\ (tokStr = <<"a", ";", ";", "b">> /\ tokSep = ";"
           => tokens = << <<"a">>, <<>>, <<"b">> >>)
     /\ (tokStr = <<"a", ";", "b", ";">> /\ tokSep = ";"
           => tokens = << <<"a">>, <<"b">>, <<>> >>)

\* C5 witness: "a;;b" has been tokenized on ';' into three tokens.
C5_Witness ==
  /\ tokPc = "done" /\ tokSep = ";"
  /\ tokStr = <<"a", ";", ";", "b">>
  /\ Len(tokens) = 3 /\ tokens[2] = <<>>

\* C6: the heterogeneous construction fails only on a data line whose token
\* count is not N, never on what a token holds; while it has not failed,
\* every data line has given one record, whose text columns hold the tokens
\* unchanged and whose numeric columns hold the value of the token's leading
\* numeric prefix, 0 when there is none.
C6_LenientDecoding ==
  (CsvOpened /\ kind = "hetero")
  => /\ (pc = "failed" =>
           IsDataLine(line) /\ FieldCount(line, separator) # Len(TYPES))
     /\ (pc # "failed" =>
           records = [i \in 1..Len(DataLines(file)) |->
                        ExpectedTuple(TYPES, Fields(DataLines(file)[i], separator))])

\* C6 witness: "1x;" was read into (int, text) as the record (1, "").
C6_Witness ==
  /\ pc = "done" /\ kind = "hetero" /\ TYPES = <<"int", "text">>
  /\ line = <<"1", "x", ";">>
  /\ records = << <<1, <<>> >> >>

\* C7: when the homogeneous construction with an explicit column count has
\* succeeded, the construction on the same file with the count unspecified
\* succeeds too, with the same size() and the same cols().
C7_ExplicitThenInferred ==
  (kind = "homog" /\ colsArg > 0 /\ pc = "done")
  => LET r == ConstructHomog(file, separator, 0)
     IN /\ r.err = NoError
        /\ Len(r.records) = Len(records)
        /\ (ret.op = "cols" =>
              /\ ret.kind = "value"
              /\ ColsOutcomes("homog", <<>>, r.records) = {[kind |-> "value", v |-> ret.v]})

\* The elements of a sequence in the order of their first occurrence.
RECURSIVE FirstOccurrences(_, _)
FirstOccurrences(seq, seen) ==
  IF seq = <<>> THEN <<>>
  ELSE IF seq[1] \in seen THEN FirstOccurrences(Tail(seq), seen)
  ELSE <<seq[1]>> \o FirstOccurrences(Tail(seq), seen \cup {seq[1]})

\* The keys of the accepted lines, in file order.
InsertedKeys == [i \in 1..Len(inserted) |-> inserted[i][1]]

\* The values of the accepted lines that define key k, in file order.
RECURSIVE ValuesInFileOrder(_, _)
ValuesInFileOrder(pairs, k) ==
  IF pairs = <<>> THEN <<>>
  ELSE (IF pairs[1][1] = k THEN <<pairs[1][2]>> ELSE <<>>)
         \o ValuesInFileOrder(Tail(pairs), k)

\* The text of a line before its first separator, white space removed
\* (the whole line when it holds no separator).
IsNoSpace(c) == ~IsSpace(c)

KeyText(l, sep) ==
  LET P == {i \in 1..Len(l) : l[i] = sep}
      n == IF P = {} THEN Len(l) ELSE (CHOOSE p \in P : \A q \in P : p <= q) - 1
  IN SelectSeq(SubSeq(l, 1, n), IsNoSpace)

\* The lines the properties reader is to skip: no separator on the line,
\* an empty key, or a key starting with '#' or '!'.
IsDiscarded(l, sep) ==
  \/ Occurrences(l, sep) = 0
  \/ KeyText(l, sep) = <<>>
  \/ KeyText(l, sep)[1] \in {"#", "!"}

\* C8 as stated: keys() returns each distinct key once, in the order of the
\* first line defining it (checked on constructions that never read a
\* string outside its characters).
C8_KeysInsertionOrder ==
  (pRet.op = "keys" /\ ~pOob)
  => pRet.v = FirstOccurrences(InsertedKeys, {})

\* C8 amended: keys() returns each distinct key exactly once, in ascending
\* order of the keys as std::string compares them, whatever the order of the
\* lines defining them.
C8_KeysAscending ==
  pRet.op = "keys"
  => /\ \A i, j \in 1..Len(pRet.v) : i < j => StrLess(pRet.v[i], pRet.v[j])
     /\ {pRet.v[i] : i \in 1..Len(pRet.v)} = {inserted[i][1] : i \in 1..Len(inserted)}

\* C8 witness: keys() has returned "a" before "b" although the first line
\* defines "b"; both values are non-empty.
C8_Witness ==
  /\ pRet.op = "keys" /\ ~pOob
  /\ pRet.v = << <<"a">>, <<"b">> >>
  /\ InsertedKeys = << <<"b">>, <<"a">> >>

\* C9: values(k) holds one entry per accepted line defining k, in file
\* order (none when no line defines k), and keys() lists k once when some
\* line defines it, however many do.
C9_ValuesFileOrder ==
  pRet.op = "values"
  => /\ pRet.v = ValuesInFileOrder(inserted, pRet.arg)
     /\ Len(pRet.v) = Cardinality({i \in 1..Len(inserted) : inserted[i][1] = pRet.arg})
     /\ Cardinality({i \in 1..Len(keys(properties)) : keys(properties)[i] = pRet.arg})
          = (IF Len(pRet.v) > 0 THEN 1 ELSE 0)

\* C9 witness: two lines define "a", the first with the greater value, and
\* values("a") has returned both in file order.
C9_Witness ==
  /\ pRet.op = "values" /\ ~pOob
  /\ pRet.arg = <<"a">>
  /\ pRet.v = << <<"b">>, <<"a">> >>

\* C10: once the file is open the construction never fails and never reads
\* outside a line; a line without separator, with an empty key or with a key
\* starting with '#' or '!' is skipped, every other line inserts one pair.
C10_SkipsNeverFails ==
  pLast \in {"skip", "insert", "throw"}
  => /\ pPc # "failed"
     /\ ~pOob
     /\ (IsDiscarded(pLine, pSeparator) => pLast = "skip")
     /\ (~IsDiscarded(pLine, pSeparator) => pLast = "insert")

\* The text of a line after its first separator.
AfterFirstSeparator(l, sep) ==
  LET p == CHOOSE i \in 1..Len(l) : l[i] = sep /\ \A j \in 1..(i - 1) : l[j] # sep
  IN SubSeq(l, p + 1, Len(l))

\* A string without its leading and trailing white space: what lies between
\* its first and its last character that is no white space.
Trimmed(str) ==
  LET N == {i \in 1..Len(str) : ~IsSpace(str[i])}
  IN IF N = {} THEN <<>>
     ELSE SubSeq(str, CHOOSE i \in N : \A j \in N : i <= j,
                      CHOOSE i \in N : \A j \in N : j <= i)

\* C11: for every accepted line, the pair stored is the text before the
\* first separator with all white space removed, and the text after that
\* separator with its leading and trailing white space removed, internal
\* white space and later separators kept.
C11_KeyValueOfLine ==
  pLast = "insert"
  => /\ Occurrences(pLine, pSeparator) > 0
     /\ inserted[Len(inserted)]
          = <<KeyText(pLine, pSeparator), Trimmed(AfterFirstSeparator(pLine, pSeparator))>>
     /\ \E i \in 1..Len(properties) : properties[i] = inserted[Len(inserted)]

\* C11 witness: "a = b= " has been stored as key "a" and value "b=", with
\* no read outside a string.
C11_Witness ==
  /\ pLast = "insert" /\ ~pOob
  /\ pLine = <<"a", " ", "=", " ", "b", "=", " ">>
  /\ inserted = << << <<"a">>, <<"b", "=">> >> >>

\* C12: at every point of the homogeneous construction and in the finished
\* store, every record has the established field count (the cols argument,
\* or with cols = 0 the token count of the first data line); with an
\* inferred count the first data line is accepted, and a mismatch is raised
\* by the second data line at the earliest.
C12_UniformFieldCount ==
  (CsvOpened /\ kind = "homog")
  => /\ \A i \in 1..Len(records) : Len(records[i]) = Established
     /\ (records # <<>> => numValues = Established)
     /\ (colsArg = 0 /\ Len(DataLines(file)) = 1 =>
           pc # "failed" /\ records = <<Fields(DataLines(file)[1], separator)>>)
     /\ (colsArg = 0 /\ pc = "failed" => Len(DataLines(file)) >= 2)

\* C12 witness: with the count inferred, two records are held while the
\* file is still being read.
C12_Witness ==
  /\ kind = "homog" /\ colsArg = 0 /\ pc = "reading"
  /\ Len(records) = 2
  /\ Len(records[1]) = 2 /\ Len(records[2]) = 2

\* C13: no stored key and no stored value is the empty string; a line with
\* nothing but white space after the separator gives no pair with an empty
\* value.
C13_NoEmptyKeyOrValue ==
  \A i \in 1..Len(properties) :
    properties[i][1] # <<>> /\ properties[i][2] # <<>>

====
